---- MODULE Spec2Model ----
(***************************************************************************)
(* Model of homeassistant/components/bsblan/water_heater.py: the BSBLAN    *)
(* water heater entity, its read properties over the coordinator's latest  *)
(* snapshot, and its two command coroutines with their suspension points.  *)
(*                                                                         *)
(* Python values are records [kind, num, str]: kind is "None", "float",    *)
(* "str" or "ValueError" (the exception float() raises).  A float is held  *)
(* in tenths of a degree (the device's resolution), so 22.0 is 220.        *)
(* A setpoint reading is the device's string, held as a tuple of           *)
(* characters so that float() has something to parse.                      *)
(***************************************************************************)
EXTENDS Integers, Sequences, FiniteSets

VARIABLES
    data,                \* coordinator.data.dhw: the latest snapshot
    setup,               \* "none", "ok" or "ValueError": how __init__ ended
    attr_min_temp,       \* self._attr_min_temp
    attr_max_temp,       \* self._attr_max_temp
    attr_operation_list, \* self._attr_operation_list
    pc,                  \* where the running command coroutine is suspended
    op,                  \* the command invoked last: its name
    arg,                 \* the command invoked last: its argument
    outcome,             \* how that invocation ended ("pending" while it runs)
    calls                \* the collaborator calls that invocation has issued

vars == <<data, setup, attr_min_temp, attr_max_temp, attr_operation_list,
          pc, op, arg, outcome, calls>>

----------------------------------------------------------------------------
(* Python values *)

None == [kind |-> "None", num |-> 0, str |-> ""]

Float(x) == [kind |-> "float", num |-> x, str |-> ""]

Str(s) == [kind |-> "str", num |-> 0, str |-> s]

ValueError == [kind |-> "ValueError", num |-> 0, str |-> ""]

----------------------------------------------------------------------------
(* Platform states and the mode tables *)

STATE_ECO == "eco"

STATE_ELECTRIC == "electric"

STATE_OFF == "off"

STATE_ON == "on"

\* A dict is the sequence of its (key, value) items in insertion order.
DictKeys(items) == {items[i][1] : i \in 1..Len(items)}

\* dict.get(key): the value of the last item stored under key, else None.
DictGet(items, key) ==
    LET idx == {i \in 1..Len(items) : items[i][1] = key}
    IN  IF idx = {} THEN None
        ELSE Str(items[CHOOSE i \in idx : \A j \in idx : j <= i][2])

\* Mutant: "on" mapped to the off state.
OPERATION_MODES_OnAsOff ==
    << <<"auto", STATE_ELECTRIC>>, <<"reduced", STATE_ECO>>,
       <<"off", STATE_OFF>>, <<"on", STATE_OFF>> >>

OPERATION_MODES ==
    << <<"auto", STATE_ELECTRIC>>, <<"reduced", STATE_ECO>>,
       <<"off", STATE_OFF>>, <<"on", STATE_ON>> >>

\* Mutant: the reverse table left un-reversed.
OPERATION_MODES_REVERSE_Forward == OPERATION_MODES

\* {v: k for k, v in OPERATION_MODES.items()}
OPERATION_MODES_REVERSE ==
    [i \in 1..Len(OPERATION_MODES) |->
        <<OPERATION_MODES[i][2], OPERATION_MODES[i][1]>>]

\* list(OPERATION_MODES_REVERSE.keys()): keys in first-insertion order.
OperationList ==
    LET RECURSIVE keys(_)
        keys(n) ==
            IF n = 0 THEN <<>>
            ELSE LET k == OPERATION_MODES_REVERSE[n][1]
                 IN  IF \E j \in 1..(n-1) : OPERATION_MODES_REVERSE[j][1] = k
                     THEN keys(n-1) ELSE Append(keys(n-1), k)
    IN  keys(Len(OPERATION_MODES_REVERSE))

----------------------------------------------------------------------------
(* float(str) *)

Digits == <<"0", "1", "2", "3", "4", "5", "6", "7", "8", "9">>

IsDigit(c) == \E d \in 1..Len(Digits) : Digits[d] = c

DigitVal(c) == (CHOOSE d \in 1..Len(Digits) : Digits[d] = c) - 1

RECURSIVE IntVal(_)
IntVal(s) ==
    IF s = <<>> THEN 0
    ELSE IntVal(SubSeq(s, 1, Len(s) - 1)) * 10 + DigitVal(s[Len(s)])

\* float(s) for a decimal literal: an optional sign, digits, at most one
\* point, at least one digit; anything else raises ValueError.  The result
\* is in tenths (readings carry at most one fractional digit).
PyFloat(s) ==
    LET signed == Len(s) > 0 /\ s[1] \in {"-", "+"}
        body   == IF signed THEN Tail(s) ELSE s
        dots   == {i \in 1..Len(body) : body[i] = "."}
        valid  == /\ \A i \in 1..Len(body) : IsDigit(body[i]) \/ body[i] = "."
                  /\ Cardinality(dots) <= 1
                  /\ \E i \in 1..Len(body) : IsDigit(body[i])
        dot    == IF dots = {} THEN Len(body) + 1 ELSE CHOOSE i \in dots : TRUE
        whole  == SubSeq(body, 1, dot - 1)
        frac   == SubSeq(body, dot + 1, Len(body))
        mag    == IntVal(whole) * 10 + (IF frac = <<>> THEN 0 ELSE DigitVal(frac[1]))
    IN  IF ~valid THEN ValueError
        ELSE Float(IF signed /\ s[1] = "-" THEN 0 - mag ELSE mag)

----------------------------------------------------------------------------
(* The snapshots the coordinator can hold and the inputs of the commands *)

Sentinel == <<"-", "-", "-">>

Readings == {Sentinel, <<"4", "0">>, <<"4", "0", ".", "0">>, <<"5", "5", ".", "5">>}

DeviceModes == {"auto", "reduced", "off", "on", "eco", "unknown"}

Snapshots ==
    [operating_mode : DeviceModes, nominal_setpoint : Readings,
     reduced_setpoint : Readings]

Temperatures == {None, Float(220), Float(555)}

ModeInputs == {STATE_ELECTRIC, STATE_ECO, STATE_OFF, STATE_ON,
               "invalid_state", "auto", "reduced"}

\* One recorded call to a collaborator and how it has ended so far.
HotWaterCall(setpoint, mode, result) ==
    [fn |-> "set_hot_water", nominal_setpoint |-> setpoint,
     operating_mode |-> mode, result |-> result]

RefreshCall(result) ==
    [fn |-> "async_request_refresh", nominal_setpoint |-> None,
     operating_mode |-> None, result |-> result]

----------------------------------------------------------------------------
(* Read properties *)

\* Mutant: the lookup made in the reverse table.
current_operation_Reverse == DictGet(OPERATION_MODES_REVERSE, data.operating_mode)

current_operation == DictGet(OPERATION_MODES, data.operating_mode)

\* Mutant: the sentinel test dropped.
current_temperature_NoSentinel == PyFloat(data.nominal_setpoint)

current_temperature ==
    IF data.nominal_setpoint = Sentinel THEN None
    ELSE PyFloat(data.nominal_setpoint)

target_temperature ==
    IF data.nominal_setpoint = Sentinel THEN None
    ELSE PyFloat(data.nominal_setpoint)

----------------------------------------------------------------------------
Init ==
    /\ data \in Snapshots
    /\ setup = "none"
    /\ attr_min_temp = None
    /\ attr_max_temp = None
    /\ attr_operation_list = <<>>
    /\ pc = "idle"
    /\ op = "none"
    /\ arg = None
    /\ outcome = "none"
    /\ calls = <<>>

cmdvars == <<pc, op, arg, outcome, calls>>

attrs == <<attr_min_temp, attr_max_temp, attr_operation_list>>

\* Mutant: the two limits taken from the wrong readings.
SetupEntry_Swapped ==
    /\ setup = "none"
    /\ LET lo == PyFloat(data.nominal_setpoint)
           hi == PyFloat(data.reduced_setpoint)
       IN  IF lo = ValueError \/ hi = ValueError
           THEN setup' = "ValueError" /\ UNCHANGED attrs
           ELSE /\ setup' = "ok"
                /\ attr_operation_list' = OperationList
                /\ attr_min_temp' = lo
                /\ attr_max_temp' = hi
    /\ UNCHANGED <<data, cmdvars>>

\* async_setup_entry: construct the one entity.  A float() that raises
\* leaves no entity behind.
SetupEntry ==
    /\ setup = "none"
    /\ LET lo == PyFloat(data.reduced_setpoint)
           hi == PyFloat(data.nominal_setpoint)
       IN  IF lo = ValueError \/ hi = ValueError
           THEN setup' = "ValueError" /\ UNCHANGED attrs
           ELSE /\ setup' = "ok"
                /\ attr_operation_list' = OperationList
                /\ attr_min_temp' = lo
                /\ attr_max_temp' = hi
    /\ UNCHANGED <<data, cmdvars>>

\* The coordinator replaces the snapshot (a poll or a requested refresh).
CoordinatorUpdate ==
    /\ \E d \in Snapshots : d # data /\ data' = d
    /\ UNCHANGED <<setup, attrs, cmdvars>>

\* Mutant: the None test dropped.
SetTemperature_NoNoneTest(temperature) ==
    /\ setup = "ok" /\ pc = "idle"
    /\ op' = "set_temperature" /\ arg' = temperature
    /\ pc' = "await_set_hot_water" /\ outcome' = "pending"
    /\ calls' = <<HotWaterCall(temperature, None, "pending")>>
    /\ UNCHANGED <<data, setup, attrs>>

\* Mutant: the new target written into the entity's own limit.
SetTemperature_Optimistic(temperature) ==
    /\ setup = "ok" /\ pc = "idle"
    /\ op' = "set_temperature" /\ arg' = temperature
    /\ IF temperature = None
       THEN /\ pc' = "idle" /\ outcome' = "returned" /\ calls' = <<>>
            /\ UNCHANGED attrs
       ELSE /\ pc' = "await_set_hot_water" /\ outcome' = "pending"
            /\ calls' = <<HotWaterCall(temperature, None, "pending")>>
            /\ attr_max_temp' = temperature
            /\ UNCHANGED <<attr_min_temp, attr_operation_list>>
    /\ UNCHANGED <<data, setup>>

\* async_set_temperature up to its first suspension point.
SetTemperature(temperature) ==
    /\ setup = "ok" /\ pc = "idle"
    /\ op' = "set_temperature" /\ arg' = temperature
    /\ IF temperature = None
       THEN pc' = "idle" /\ outcome' = "returned" /\ calls' = <<>>
       ELSE /\ pc' = "await_set_hot_water" /\ outcome' = "pending"
            /\ calls' = <<HotWaterCall(temperature, None, "pending")>>
    /\ UNCHANGED <<data, setup, attrs>>

\* async_set_operation_mode up to its first suspension point.
SetOperationMode(operation_mode) ==
    /\ setup = "ok" /\ pc = "idle"
    /\ op' = "set_operation_mode" /\ arg' = Str(operation_mode)
    /\ LET bsblan_mode == DictGet(OPERATION_MODES_REVERSE, operation_mode)
       IN  IF bsblan_mode = None
           THEN /\ pc' = "idle" /\ outcome' = "invalid_operation_mode"
                /\ calls' = <<>>
           ELSE /\ pc' = "await_set_hot_water" /\ outcome' = "pending"
                /\ calls' = <<HotWaterCall(None, bsblan_mode, "pending")>>
    /\ UNCHANGED <<data, setup, attrs>>

\* Mutant: the command returns without requesting a refresh.
SetHotWaterReturns_NoRefresh ==
    /\ pc = "await_set_hot_water"
    /\ calls' = <<[calls[1] EXCEPT !.result = "returned"]>>
    /\ pc' = "idle" /\ outcome' = "returned"
    /\ UNCHANGED <<data, setup, attrs, op, arg>>

\* set_hot_water returned: fall through to the refresh request.
SetHotWaterReturns ==
    /\ pc = "await_set_hot_water"
    /\ calls' = <<[calls[1] EXCEPT !.result = "returned"], RefreshCall("pending")>>
    /\ pc' = "await_request_refresh"
    /\ UNCHANGED <<data, setup, attrs, op, arg, outcome>>

\* Mutant: the refresh requested on the failure path as well.
SetHotWaterRaises_Refresh ==
    /\ pc = "await_set_hot_water"
    /\ calls' = <<[calls[1] EXCEPT !.result = "BSBLANError"], RefreshCall("returned")>>
    /\ pc' = "idle"
    /\ outcome' = IF op = "set_temperature" THEN "set_temperature_error"
                  ELSE "set_operation_mode_error"
    /\ UNCHANGED <<data, setup, attrs, op, arg>>

\* set_hot_water raised BSBLANError: the except clause of the running command.
SetHotWaterRaises ==
    /\ pc = "await_set_hot_water"
    /\ calls' = <<[calls[1] EXCEPT !.result = "BSBLANError"]>>
    /\ pc' = "idle"
    /\ outcome' = IF op = "set_temperature" THEN "set_temperature_error"
                  ELSE "set_operation_mode_error"
    /\ UNCHANGED <<data, setup, attrs, op, arg>>

\* async_request_refresh returned: the command returns.
RequestRefreshReturns ==
    /\ pc = "await_request_refresh"
    /\ calls' = [calls EXCEPT ![2].result = "returned"]
    /\ pc' = "idle" /\ outcome' = "returned"
    /\ UNCHANGED <<data, setup, attrs, op, arg>>

Next ==
    \/ SetupEntry
    \/ CoordinatorUpdate
    \/ \E temperature \in Temperatures : SetTemperature(temperature)
    \/ \E operation_mode \in ModeInputs : SetOperationMode(operation_mode)
    \/ SetHotWaterReturns
    \/ SetHotWaterRaises
    \/ RequestRefreshReturns

Spec == Init /\ [][Next]_vars

----------------------------------------------------------------------------
(* Properties *)

PlatformStates == {"electric", "eco", "off", "on"}

HotWaterCalls == {i \in 1..Len(calls) : calls[i].fn = "set_hot_water"}

RefreshCalls == {i \in 1..Len(calls) : calls[i].fn = "async_request_refresh"}

\* C1: set_operation_mode with a string that is not one of the four platform
\* states ends at once in the error invalid_operation_mode, and the
\* invocation issues no device call and no refresh request.
C1_InvalidModeRejected ==
    (op = "set_operation_mode" /\ arg.str \notin PlatformStates) =>
        /\ pc = "idle"
        /\ outcome = "invalid_operation_mode"
        /\ calls = <<>>

C1_Witness ==
    /\ op = "set_operation_mode" /\ arg = Str("auto")
    /\ outcome = "invalid_operation_mode" /\ calls = <<>>

\* C2: set_temperature(v) issues one set_hot_water call carrying
\* nominal_setpoint = v; while that call is pending nothing else has been
\* issued; once it has returned exactly one refresh request follows it.
C2_SetTemperatureCallThenRefresh ==
    (op = "set_temperature" /\ arg.kind = "float") =>
        /\ Len(calls) >= 1
        /\ calls[1].fn = "set_hot_water"
        /\ calls[1].nominal_setpoint = arg
        /\ calls[1].operating_mode = None
        /\ Cardinality(HotWaterCalls) = 1
        /\ calls[1].result = "pending" => (Len(calls) = 1 /\ pc = "await_set_hot_water")
        /\ calls[1].result = "returned" =>
              /\ Len(calls) = 2
              /\ calls[2].fn = "async_request_refresh"
              /\ pc = "idle" => outcome = "returned"

C2_Witness ==
    /\ op = "set_temperature" /\ pc = "idle" /\ outcome = "returned"
    /\ calls = <<HotWaterCall(Float(220), None, "returned"), RefreshCall("returned")>>

\* C3: when set_hot_water raises BSBLANError the command ends in the error
\* named after the command, and the invocation requests no refresh.
C3_ClientErrorTranslated ==
    (Len(calls) >= 1 /\ calls[1].result = "BSBLANError") =>
        /\ pc = "idle"
        /\ op = "set_temperature" => outcome = "set_temperature_error"
        /\ op = "set_operation_mode" => outcome = "set_operation_mode_error"
        /\ op \in {"set_temperature", "set_operation_mode"}
        /\ RefreshCalls = {}

C3_Witness ==
    /\ op = "set_operation_mode" /\ outcome = "set_operation_mode_error"
    /\ calls = <<HotWaterCall(None, Str("reduced"), "BSBLANError")>>

\* C4: set_temperature without a temperature returns normally and issues
\* no device call and no refresh request.
C4_NoTemperatureNoOp ==
    (op = "set_temperature" /\ arg = None) =>
        /\ pc = "idle"
        /\ outcome = "returned"
        /\ calls = <<>>

C4_Witness ==
    /\ op = "set_temperature" /\ arg = None /\ outcome = "returned"
    /\ data.nominal_setpoint = Sentinel

\* C5: the two mode tables are inverse bijections over the four pairs, and
\* set_operation_mode(s) for a platform state s issues one set_hot_water
\* call whose operating_mode is the one device mode that current_operation
\* maps to s, followed, once it has returned, by one refresh request.
C5_ModeRoundTrip ==
    /\ Len(OPERATION_MODES) = 4
    /\ DictKeys(OPERATION_MODES) = {"auto", "reduced", "off", "on"}
    /\ DictKeys(OPERATION_MODES_REVERSE) = PlatformStates
    /\ \A k \in DictKeys(OPERATION_MODES) :
          DictGet(OPERATION_MODES_REVERSE, DictGet(OPERATION_MODES, k).str) = Str(k)
    /\ \A v \in DictKeys(OPERATION_MODES_REVERSE) :
          DictGet(OPERATION_MODES, DictGet(OPERATION_MODES_REVERSE, v).str) = Str(v)
    /\ DictGet(OPERATION_MODES_REVERSE, "electric") = Str("auto")
    /\ DictGet(OPERATION_MODES_REVERSE, "eco") = Str("reduced")
    /\ DictGet(OPERATION_MODES_REVERSE, "off") = Str("off")
    /\ DictGet(OPERATION_MODES_REVERSE, "on") = Str("on")
    /\ (op = "set_operation_mode" /\ arg.str \in PlatformStates) =>
          /\ Len(calls) >= 1
          /\ Cardinality(HotWaterCalls) = 1
          /\ calls[1].fn = "set_hot_water"
          /\ calls[1].nominal_setpoint = None
          /\ calls[1].operating_mode = DictGet(OPERATION_MODES_REVERSE, arg.str)
          /\ \A m \in DeviceModes :
                DictGet(OPERATION_MODES, m) = arg <=> Str(m) = calls[1].operating_mode
          /\ calls[1].result = "pending" => Len(calls) = 1
          /\ calls[1].result = "returned" =>
                (Len(calls) = 2 /\ calls[2].fn = "async_request_refresh")

C5_Witness ==
    /\ op = "set_operation_mode" /\ arg = Str("eco") /\ outcome = "returned"
    /\ calls = <<HotWaterCall(None, Str("reduced"), "returned"), RefreshCall("returned")>>

\* C6: current_operation is electric, eco, off or on when the latest
\* snapshot's operating mode is auto, reduced, off or on, and None for any
\* other device mode.
C6_CurrentOperation ==
    current_operation =
        CASE data.operating_mode = "auto" -> Str("electric")
          [] data.operating_mode = "reduced" -> Str("eco")
          [] data.operating_mode = "off" -> Str("off")
          [] data.operating_mode = "on" -> Str("on")
          [] OTHER -> None

C6_Witness ==
    /\ setup = "ok" /\ op # "none"
    /\ data.operating_mode = "eco" /\ current_operation = None

\* The number each numeric reading of the model denotes, in tenths.
ReadingTenths ==
    [r \in Readings \ {Sentinel} |->
        CASE r = <<"4", "0">> -> 400
          [] r = <<"4", "0", ".", "0">> -> 400
          [] r = <<"5", "5", ".", "5">> -> 555]

\* C7: current_temperature and target_temperature agree: None when the
\* latest nominal setpoint is the sentinel, otherwise that setpoint as a
\* number.
C7_TemperaturesFromNominal ==
    /\ current_temperature = target_temperature
    /\ data.nominal_setpoint = Sentinel => current_temperature = None
    /\ data.nominal_setpoint # Sentinel =>
          current_temperature = Float(ReadingTenths[data.nominal_setpoint])

C7_Witness ==
    /\ setup = "ok" /\ data.nominal_setpoint = Sentinel
    /\ current_temperature = None /\ attr_max_temp = Float(555)

\* C8: the step that constructs the entity sets min_temp and max_temp to
\* the reduced and nominal setpoints of the snapshot of that moment, and no
\* later step (snapshot replacement or command) changes them.
C8_LimitsFixedAtConstruction ==
    [][ /\ (setup = "none" /\ setup' = "ok") =>
              /\ attr_min_temp' = PyFloat(data.reduced_setpoint)
              /\ attr_max_temp' = PyFloat(data.nominal_setpoint)
        /\ setup = "ok" =>
              /\ setup' = "ok"
              /\ attr_min_temp' = attr_min_temp
              /\ attr_max_temp' = attr_max_temp ]_vars

C8_Witness ==
    /\ setup = "ok" /\ op = "set_temperature" /\ outcome = "returned"
    /\ attr_min_temp = Float(400) /\ attr_max_temp = Float(555)
    /\ data.nominal_setpoint = <<"4", "0">>
    /\ data.reduced_setpoint = <<"5", "5", ".", "5">>

\* C9 as stated: every finished invocation has made exactly one device call.
C9_Original ==
    (op # "none" /\ pc = "idle") => Cardinality(HotWaterCalls) = 1

\* Whether the invocation got past its local validation.
Forwarded ==
    \/ op = "set_temperature" /\ arg # None
    \/ op = "set_operation_mode" /\ arg.str \in PlatformStates

\* C9 amended: an invocation makes exactly one device call when a
\* temperature is supplied or the mode is valid, and none otherwise; it
\* requests exactly one refresh when that call has returned and none
\* otherwise; and no step after construction changes the entity's own
\* attributes, so the read properties change only with the snapshot.
C9_OneCallRefreshOnSuccess ==
    [][ /\ Cardinality(HotWaterCalls') = (IF Forwarded' THEN 1 ELSE 0)
        /\ Cardinality(RefreshCalls') =
              (IF Len(calls') >= 1 /\ calls'[1].result = "returned" THEN 1 ELSE 0)
        /\ setup = "ok" => UNCHANGED <<setup, attrs>>
        /\ data' = data =>
              /\ current_operation' = current_operation
              /\ current_temperature' = current_temperature
              /\ target_temperature' = target_temperature ]_vars

C9_Witness ==
    /\ op = "set_temperature" /\ arg = Float(555) /\ outcome = "set_temperature_error"
    /\ calls = <<HotWaterCall(Float(555), None, "BSBLANError")>>

\* C10: constructing the entity from a snapshot whose nominal or reduced
\* setpoint is the sentinel completes without raising an error.
C10_SentinelConstructs ==
    [][ (/\ setup = "none" /\ setup' # "none"
         /\ (data.nominal_setpoint = Sentinel \/ data.reduced_setpoint = Sentinel))
        => setup' = "ok" ]_vars

====
